---- MODULE Spec2Model ----
(***************************************************************************)
(* Model of pmwd/nbody.py: the symplectic integrator, the snapshot         *)
(* observer, the trajectory driver nbody, its adjoint driver nbody_adj and *)
(* the custom_vjp rule (nbody_fwd / nbody_bwd) binding them.               *)
(*                                                                         *)
(* Scale factors are integers on a grid of one third of 1e-3, so that the  *)
(* tolerance test |a - a_save| < 1e-3 and the 3-decimal dictionary key are *)
(* exact.  Split weights are integers in units of 1/WeightDen, and the     *)
(* scale factors handed to the kernels are in units of 1/WeightDen of a    *)
(* grid step, so that a_prev*(1-D) + a_next*D is exact.  One particle in   *)
(* one dimension stands for the particle arrays: every kernel acts on all  *)
(* particles alike.                                                        *)
(*                                                                         *)
(* observe reads obsvbl['a_snaps'] unconditionally and observe_init stacks *)
(* one buffer per snapshot, so nbody only runs with at least one requested *)
(* snapshot: every configuration of the model has one.                     *)
(***************************************************************************)
EXTENDS Integers, Sequences, FiniteSets, TLC

\* ------------------------------------------------------------- bounds
\* largest scale factor of the grid
MaxA == 4
\* most entries of conf.a_nbody
MaxLen == 4
\* most entries of conf.a_snapshots
MaxSnaps == 2
\* most entries of conf.a_save
MaxSave == 1
\* most entries of conf.symp_splits
MaxSplits == 2
\* split weights are multiples of 1/WeightDen
WeightDen == 2
\* initial displacement and velocity range over 0..MaxVal
MaxVal == 1

\* 1e-3 in grid units (the tolerance of the checkpoint test and the
\* resolution of the '.3f' key)
Milli == 3

VARIABLES
    conf,             \* the configuration: a_nbody, a_snapshots, a_save, symp_splits
    reverse,          \* nbody's reverse argument
    pc,               \* position in nbody_fwd / nbody / nbody_bwd / nbody_adj
    a_nbody,          \* nbody's local schedule (conf.a_nbody, reversed or not)
    ptcl,             \* the particle state [disp, vel, acc]
    obsvbl,           \* the observable buffer
    n,                \* index of the interval the driver loop is at
    i,                \* observe's loop index
    j,                \* observe's loop bound
    ptcl_all_save,    \* checkpoint map of particle states
    obsvbl_all_save,  \* checkpoint map of observable buffers
    ret,              \* nbody's return value
    res,              \* the residuals nbody_fwd saves
    tag,              \* history: where the current acc was evaluated, and whether disp moved since
    hist,             \* history: (ptcl, obsvbl) after nbody_init and after each nbody_step
    written,          \* history: per snapshot, the interval during which observe wrote it
    obsLog,           \* history: the snapshot indices the current observe call wrote, in order
    fwdCalls,         \* history: the (a_prev, a_next) of every nbody_step call
    fwdKern,          \* history: the kernel calls of every integrate call
    adjInitAt,        \* history: the scale factors nbody_adj_init was called at
    adjCalls,         \* history: the (a_prev, a_next) of every nbody_adj_step call
    adjKern,          \* history: the kernel calls of every integrate_adj call
    cotLog            \* history: the snapshot cotangents injected by the adjoint observer

vars == <<conf, reverse, pc, a_nbody, ptcl, obsvbl, n, i, j, ptcl_all_save,
          obsvbl_all_save, ret, res, tag, hist, written, obsLog, fwdCalls,
          fwdKern, adjInitAt, adjCalls, adjKern, cotLog>>

\* ------------------------------------------------------------- helpers
Abs(x) == IF x < 0 THEN -x ELSE x

\* a[::-1]
Rev(s) == [m \in 1..Len(s) |-> s[Len(s) + 1 - m]]

\* jnp.searchsorted(arr, v, side='left') on a sorted array: the number of
\* entries below v (a 0-based index)
SearchSortedLeft(arr, v) == Cardinality({m \in DOMAIN arr : arr[m] < v})

\* jnp.searchsorted(arr, v, side='right')
SearchSortedRight(arr, v) == Cardinality({m \in DOMAIN arr : arr[m] <= v})

\* arr[idx] for a jax array and a 0-based traced index: a negative index
\* counts from the end, an index out of bounds is clamped
At(arr, idx) ==
    LET len == Len(arr)
        w == IF idx < 0 THEN idx + len ELSE idx
        c == IF w < 0 THEN 0 ELSE IF w > len - 1 THEN len - 1 ELSE w
    IN arr[c + 1]

\* f'{a:.3f}': a rounded to the nearest multiple of 1e-3
Key(a) == (2 * a + Milli) \div (2 * Milli)

\* jnp.any(jnp.abs(a - conf.a_save) < 1e-3)
NearSave(a, a_save) == \E s \in a_save : Abs(a - s) < Milli

\* d[key] = v on a dict
DictSet(d, key, v) == [x \in (DOMAIN d) \cup {key} |-> IF x = key THEN v ELSE d[x]]

\* ------------------------------------------- external collaborators
\* growth(a, cosmo, conf): the linear growth factor
growth(a) == 16 * a

\* _G_D: growth factor of the canonical velocity
G_D(a) == 2 * 2^(a % 4)

\* _G_K: growth factor of the accelerations
G_K(a) == 1 + (a % 2)

\* gravity(a, ptcl, cosmo, conf): the acceleration field
gravity(a, p) == ((a + p.disp) % 3) - 1

\* interptcl(ptcl_prev, ptcl, a_prev, a_next, a_snap, cosmo): linear
\* interpolation, kept as numerators over the denominator a_next - a_prev
interptcl(p0, p1, a0, a1, a_snap) ==
    [disp |-> p0.disp * (a1 - a_snap) + p1.disp * (a_snap - a0),
     vel  |-> p0.vel * (a1 - a_snap) + p1.vel * (a_snap - a0),
     den  |-> a1 - a0]

\* ------------------------------------------------------ step factors
drift_factor(a_vel, a_prev, a_next) == (growth(a_next) - growth(a_prev)) \div G_D(a_vel)

kick_factor(a_acc, a_prev, a_next) == (G_D(a_next) - G_D(a_prev)) \div G_K(a_acc)

\* ---------------------------------------------------- physics kernels
drift(a_vel, a_prev, a_next, p) ==
    [p EXCEPT !.disp = p.disp + p.vel * drift_factor(a_vel, a_prev, a_next)]

kick(a_acc, a_prev, a_next, p) ==
    [p EXCEPT !.vel = p.vel + p.acc * kick_factor(a_acc, a_prev, a_next)]

force(a, p) == [p EXCEPT !.acc = gravity(a, p)]

\* one logged kernel call; accAt and stale are the acc's provenance when the
\* kernel was entered
Call(op, a, from, to, t) ==
    [op |-> op, a |-> a, from |-> from, to |-> to, accAt |-> t.at, stale |-> t.stale]

\* ------------------------------------------------ symplectic integrator
\* a_prev * (1 - F) + a_next * F for a running fraction F, in kernel units
Between(a_prev, a_next, F) == a_prev * (WeightDen - F) + a_next * F

\* integrate's locals before the loop (D = K = 0, a_disp = a_vel = a_acc = a_prev)
StepInit(a_prev, p, t) ==
    [ptcl |-> p, tag |-> t, D |-> 0, K |-> 0,
     a_disp |-> a_prev * WeightDen, a_vel |-> a_prev * WeightDen,
     a_acc |-> a_prev * WeightDen, log |-> <<>>]

\* DriftBranch without the update a_acc = a_disp
DriftBranchKeepsAAcc(a_prev, a_next, s, d) ==
    IF d = 0 THEN s
    ELSE LET D1 == s.D + d
             a_disp_next == Between(a_prev, a_next, D1)
             p1 == drift(s.a_vel, s.a_disp, a_disp_next, s.ptcl)
             t1 == [s.tag EXCEPT !.stale = TRUE]
             p2 == force(a_disp_next, p1)
             t2 == [at |-> a_disp_next, stale |-> FALSE]
         IN [s EXCEPT !.D = D1, !.ptcl = p2, !.tag = t2, !.a_disp = a_disp_next,
                      !.log = @ \o <<Call("drift", s.a_vel, s.a_disp, a_disp_next, s.tag),
                                     Call("force", a_disp_next, a_disp_next, a_disp_next, t1)>>]

\* integrate, the branch "if d != 0": drift, then force, then a_acc = a_disp
DriftBranch(a_prev, a_next, s, d) ==
    IF d = 0 THEN s
    ELSE LET D1 == s.D + d
             a_disp_next == Between(a_prev, a_next, D1)
             p1 == drift(s.a_vel, s.a_disp, a_disp_next, s.ptcl)
             t1 == [s.tag EXCEPT !.stale = TRUE]
             p2 == force(a_disp_next, p1)
             t2 == [at |-> a_disp_next, stale |-> FALSE]
         IN [s EXCEPT !.D = D1, !.ptcl = p2, !.tag = t2,
                      !.a_disp = a_disp_next, !.a_acc = a_disp_next,
                      !.log = @ \o <<Call("drift", s.a_vel, s.a_disp, a_disp_next, s.tag),
                                     Call("force", a_disp_next, a_disp_next, a_disp_next, t1)>>]

\* KickBranch without the update a_vel = a_vel_next
KickBranchKeepsAVel(a_prev, a_next, s, k) ==
    IF k = 0 THEN s
    ELSE LET K1 == s.K + k
             a_vel_next == Between(a_prev, a_next, K1)
         IN [s EXCEPT !.K = K1,
                      !.ptcl = kick(s.a_acc, s.a_vel, a_vel_next, s.ptcl),
                      !.log = @ \o <<Call("kick", s.a_acc, s.a_vel, a_vel_next, s.tag)>>]

\* integrate, the branch "if k != 0": kick
KickBranch(a_prev, a_next, s, k) ==
    IF k = 0 THEN s
    ELSE LET K1 == s.K + k
             a_vel_next == Between(a_prev, a_next, K1)
         IN [s EXCEPT !.K = K1, !.a_vel = a_vel_next,
                      !.ptcl = kick(s.a_acc, s.a_vel, a_vel_next, s.ptcl),
                      !.log = @ \o <<Call("kick", s.a_acc, s.a_vel, a_vel_next, s.tag)>>]

\* one pass of integrate's loop body, for the split (d, k)
IntegrateEntry(a_prev, a_next, s, dk) ==
    KickBranch(a_prev, a_next, DriftBranch(a_prev, a_next, s, dk[1]), dk[2])

RECURSIVE IntegrateLoop(_, _, _, _, _)
IntegrateLoop(a_prev, a_next, s, splits, idx) ==
    IF idx > Len(splits) THEN s
    ELSE IntegrateLoop(a_prev, a_next,
                       IntegrateEntry(a_prev, a_next, s, splits[idx]), splits, idx + 1)

\* integrate(a_prev, a_next, ptcl, cosmo, conf); t is the acc's provenance
integrate(a_prev, a_next, p, t, splits) ==
    IntegrateLoop(a_prev, a_next, StepInit(a_prev, p, t), splits, 1)

\* integrate_adj, the branch "if k != 0": kick_adj
KickAdjBranch(a_prev, a_next, s, k) ==
    IF k = 0 THEN s
    ELSE LET K1 == s.K + k
             a_vel_next == Between(a_prev, a_next, K1)
         IN [s EXCEPT !.K = K1, !.a_vel = a_vel_next,
                      !.ptcl = kick(s.a_acc, s.a_vel, a_vel_next, s.ptcl),
                      !.log = @ \o <<Call("kick_adj", s.a_acc, s.a_vel, a_vel_next, s.tag)>>]

\* integrate_adj, the branch "if d != 0": drift_adj, then force_adj, then a_acc = a_disp
DriftAdjBranch(a_prev, a_next, s, d) ==
    IF d = 0 THEN s
    ELSE LET D1 == s.D + d
             a_disp_next == Between(a_prev, a_next, D1)
             p1 == drift(s.a_vel, s.a_disp, a_disp_next, s.ptcl)
             t1 == [s.tag EXCEPT !.stale = TRUE]
             p2 == force(a_disp_next, p1)
             t2 == [at |-> a_disp_next, stale |-> FALSE]
         IN [s EXCEPT !.D = D1, !.ptcl = p2, !.tag = t2,
                      !.a_disp = a_disp_next, !.a_acc = a_disp_next,
                      !.log = @ \o <<Call("drift_adj", s.a_vel, s.a_disp, a_disp_next, s.tag),
                                     Call("force_adj", a_disp_next, a_disp_next, a_disp_next, t1)>>]

\* one pass of integrate_adj's loop body: kick_adj before drift_adj
IntegrateAdjEntry(a_prev, a_next, s, dk) ==
    DriftAdjBranch(a_prev, a_next, KickAdjBranch(a_prev, a_next, s, dk[2]), dk[1])

RECURSIVE IntegrateAdjLoop(_, _, _, _, _)
IntegrateAdjLoop(a_prev, a_next, s, splits, idx) ==
    IF idx > Len(splits) THEN s
    ELSE IntegrateAdjLoop(a_prev, a_next,
                          IntegrateAdjEntry(a_prev, a_next, s, splits[idx]), splits, idx + 1)

\* AdjSplitOrder walking the list first to last
AdjSplitOrderForward(splits) == splits

\* the order in which integrate_adj walks conf.symp_splits
AdjSplitOrder(splits) == Rev(splits)

\* integrate_adj(a_prev, a_next, ptcl, ...): the particle state and the
\* kernel calls; the cotangent values need the gravity solver's vjp and are
\* not modelled
integrate_adj(a_prev, a_next, p, t, splits) ==
    IntegrateAdjLoop(a_prev, a_next, StepInit(a_prev, p, t), AdjSplitOrder(splits), 1)

\* ----------------------------------------------------- snapshot observer
\* SnapBracket with the search written side='right'
SnapBracketRight(sched, a_snap) ==
    LET idx == SearchSortedRight(sched, a_snap)
    IN <<At(sched, idx - 1), At(sched, idx)>>

\* observe_init: the bracket of snapshot a_snap, (a_nbody[idx-1], a_nbody[idx])
\* for idx = searchsorted(conf.a_nbody, a_snap, side='left')
SnapBracket(sched, a_snap) ==
    LET idx == SearchSortedLeft(sched, a_snap)
    IN <<At(sched, idx - 1), At(sched, idx)>>

\* observe_init(a, ptcl, obsvbl, cosmo, conf): a fresh buffer, whatever was passed in
observe_init(p, c) ==
    [ptcl_prev   |-> p,
     a_snaps     |-> c.a_snapshots,
     snaps       |-> [m \in DOMAIN c.a_snapshots |-> [disp |-> 0, vel |-> 0, den |-> 1]],
     snap_a_step |-> [m \in DOMAIN c.a_snapshots |-> SnapBracket(c.a_nbody, c.a_snapshots[m])]]

\* observe: the loop bounds i and j
ObserveFrom(a_snaps, a_prev) == SearchSortedLeft(a_snaps, a_prev)

\* ObserveUpTo with the search written side='right'
ObserveUpToRight(a_snaps, a_next) == SearchSortedRight(a_snaps, a_next)

ObserveUpTo(a_snaps, a_next) == SearchSortedLeft(a_snaps, a_next)

\* observe_adj and observe_adj_init, itp_cond_adj: the test guarding itp_next_adj,
\* a_step[1] == a_next (a_step[1] == a in observe_adj_init)
ItpNextDue(a_step, a_next) == a_step[2] = a_next

\* observe_adj, itp_cond_adj: the test guarding itp_prev_adj, a_step[1] == a_prev
ItpPrevDue(a_step, a_prev) == a_step[2] = a_prev

\* one application of itp_next_adj or itp_prev_adj to the cotangent of snapshot
\* q: the rule, the snapshot, the bracket handed to the rule, the observer call
\* making it (0 for observe_adj_init, the step's number otherwise) and the
\* scale factor at which the particle state handed to the rule sits
Injection(rule, q, o, call, a) ==
    [rule |-> rule, snap |-> q, a_step |-> o.snap_a_step[q], call |-> call, at |-> a]

\* observe_adj, itp_cond_adj: the two guarded branches for snapshot q; the
\* particle state handed in is integrate_adj's result, which sits at a_next
itp_cond_adj(a_prev, a_next, o, call, q) ==
    (IF ItpNextDue(o.snap_a_step[q], a_next)
     THEN <<Injection("next", q, o, call, a_next)>> ELSE <<>>)
    \o
    (IF ItpPrevDue(o.snap_a_step[q], a_prev)
     THEN <<Injection("prev", q, o, call, a_next)>> ELSE <<>>)

RECURSIVE ObserveAdjScan(_, _, _, _, _)
\* observe_adj: the scan of itp_cond_adj over the snapshots from q on
ObserveAdjScan(a_prev, a_next, o, call, q) ==
    IF q > Len(o.a_snaps) THEN <<>>
    ELSE itp_cond_adj(a_prev, a_next, o, call, q)
         \o ObserveAdjScan(a_prev, a_next, o, call, q + 1)

\* observe_adj(a_prev, a_next, ptcl, ptcl_cot, obsvbl, obsvbl_cot, ...): the
\* injections made by the call of step number call
observe_adj(a_prev, a_next, o, call) == ObserveAdjScan(a_prev, a_next, o, call, 1)

RECURSIVE ObserveAdjInitScan(_, _, _)
\* observe_adj_init: the scan of its single guarded branch from snapshot q on
ObserveAdjInitScan(a, o, q) ==
    IF q > Len(o.a_snaps) THEN <<>>
    ELSE (IF ItpNextDue(o.snap_a_step[q], a)
          THEN <<Injection("next", q, o, 0, a)>> ELSE <<>>)
         \o ObserveAdjInitScan(a, o, q + 1)

\* observe_adj_init(a, ptcl, ptcl_cot, obsvbl, obsvbl_cot, ...)
observe_adj_init(a, o) == ObserveAdjInitScan(a, o, 1)

\* ------------------------------------------------------ trajectory driver
\* a_nbody = conf.a_nbody[::-1] if reverse else conf.a_nbody
Schedule(c, rev) == IF rev THEN Rev(c.a_nbody) ELSE c.a_nbody

\* SaveHere with the tolerance test written <= instead of <
SaveHereInclusive(c, a) == c.save_given /\ \E sv \in c.a_save : Abs(a - sv) <= Milli

\* the test deciding whether the state reached at scale factor a is saved
SaveHere(c, a) == c.save_given /\ NearSave(a, c.a_save)

\* a[:0:-1]
SliceDownToOne(a) == [m \in 1..(Len(a) - 1) |-> a[Len(a) + 1 - m]]

\* a[-2::-1]
SliceFromSecondLast(a) == [m \in 1..(Len(a) - 1) |-> a[Len(a) - m]]

\* AdjPairs walking the swapped intervals first to last: zip(a[1:], a[:-1])
AdjPairsFirstToLast(a) == [m \in 1..(Len(a) - 1) |-> <<a[m + 1], a[m]>>]

\* zip(a_nbody[:0:-1], a_nbody[-2::-1]): the intervals nbody_adj walks
AdjPairs(a) ==
    LET x == SliceDownToOne(a)
        y == SliceFromSecondLast(a)
        len == IF Len(x) < Len(y) THEN Len(x) ELSE Len(y)
    IN [m \in 1..len |-> <<x[m], y[m]>>]

\* nbody's return value
NbodyResult(c, p, o, pmap, omap) ==
    IF c.save_given THEN [kind |-> "dict", ptcl |-> pmap, obsvbl |-> omap]
    ELSE [kind |-> "state", ptcl |-> p, obsvbl |-> o]

\* nbody_fwd's residuals (ptcl, obsvbl, cosmo, conf), ptcl and obsvbl being
\* the two values nbody returned
Residuals(r, c) == [kind |-> r.kind, ptcl |-> r.ptcl, obsvbl |-> r.obsvbl, conf |-> c]

\* ----------------------------------------------------------- inputs
Increasing(s) == \A m \in 1..(Len(s) - 1) : s[m] < s[m + 1]

Schedules ==
    {s \in UNION {[1..len -> 1..MaxA] : len \in 2..MaxLen} : Increasing(s)}

SnapLists ==
    {s \in UNION {[1..len -> 1..MaxA] : len \in 1..MaxSnaps} : Increasing(s)}

SaveSets == {S \in SUBSET (1..MaxA) : Cardinality(S) <= MaxSave}

RECURSIVE SumAt(_, _, _)
SumAt(s, col, idx) == IF idx > Len(s) THEN 0 ELSE s[idx][col] + SumAt(s, col, idx + 1)

\* split lists whose drift weights and whose kick weights each sum to 1
SplitLists ==
    {s \in UNION {[1..len -> (0..WeightDen) \X (0..WeightDen)] : len \in 1..MaxSplits} :
        SumAt(s, 1, 1) = WeightDen /\ SumAt(s, 2, 1) = WeightDen}

\* drift, full kick, drift
Leapfrog == <<<<WeightDen \div 2, WeightDen>>, <<WeightDen - WeightDen \div 2, 0>>>>

\* sorted schedules with a repeated entry: not strictly monotonic
NonDecreasing(s) == \A m \in 1..(Len(s) - 1) : s[m] <= s[m + 1]

RepeatingSchedules ==
    {s \in UNION {[1..len -> 1..MaxA] : len \in 2..MaxLen} :
        NonDecreasing(s) /\ ~Increasing(s)}

Config(sched, snaps, given, sv, sp) ==
    [a_nbody |-> sched, a_snapshots |-> snaps, save_given |-> given, a_save |-> sv,
     symp_splits |-> sp]

\* the configurations: every increasing schedule with every snapshot list,
\* with and without checkpoints, under the leapfrog split; every increasing
\* schedule with every split list, and every repeating schedule under the
\* leapfrog split, with one snapshot at the last entry and no checkpoints
Configs ==
    {Config(sched, snaps, TRUE, sv, Leapfrog) :
        sched \in Schedules, snaps \in SnapLists, sv \in SaveSets}
    \cup
    {Config(sched, snaps, FALSE, {}, Leapfrog) : sched \in Schedules, snaps \in SnapLists}
    \cup
    {Config(sched, <<sched[Len(sched)]>>, FALSE, {}, sp) :
        sched \in Schedules, sp \in SplitLists}
    \cup
    {Config(sched, <<sched[Len(sched)]>>, FALSE, {}, Leapfrog) :
        sched \in RepeatingSchedules}

NoObsvbl == [ptcl_prev |-> [disp |-> 0, vel |-> 0, acc |-> 0], a_snaps |-> <<>>,
             snaps |-> <<>>, snap_a_step |-> <<>>]

NoTag == [at |-> -1, stale |-> TRUE]

NoValue == [kind |-> "none"]

InitRest ==
    /\ a_nbody = <<>>
    /\ obsvbl = NoObsvbl
    /\ n = 0 /\ i = 0 /\ j = 0
    /\ ptcl_all_save = <<>> /\ obsvbl_all_save = <<>>
    /\ ret = NoValue /\ res = NoValue
    /\ tag = NoTag
    /\ hist = <<>>
    /\ obsLog = <<>>
    /\ fwdCalls = <<>> /\ fwdKern = <<>>
    /\ adjInitAt = <<>> /\ adjCalls = <<>> /\ adjKern = <<>>
    /\ cotLog = <<>>

Init ==
    /\ conf \in Configs
    /\ reverse \in BOOLEAN
    /\ pc = "start"
    /\ ptcl = [disp |-> 0, vel |-> 1, acc |-> 0]
    /\ written = [m \in DOMAIN conf.a_snapshots |-> <<>>]
    /\ InitRest

\* nbody, lines 304-313: the schedule, nbody_init and the first checkpoint
NbodyInit ==
    /\ pc = "start"
    /\ LET sched == Schedule(conf, reverse)
           a0 == sched[1]
           p == force(a0 * WeightDen, ptcl)
           o == observe_init(p, conf)
       IN /\ a_nbody' = sched
          /\ ptcl' = p
          /\ tag' = [at |-> a0 * WeightDen, stale |-> FALSE]
          /\ obsvbl' = o
          /\ IF SaveHere(conf, a0)
             THEN /\ ptcl_all_save' = DictSet(<<>>, Key(a0), p)
                  /\ obsvbl_all_save' = DictSet(<<>>, Key(a0), o)
             ELSE UNCHANGED <<ptcl_all_save, obsvbl_all_save>>
          /\ hist' = <<[ptcl |-> p, obsvbl |-> o]>>
    /\ n' = 1
    /\ pc' = "loop"
    /\ UNCHANGED <<conf, reverse, i, j, ret, res, written, obsLog, fwdCalls, fwdKern,
                   adjInitAt, adjCalls, adjKern, cotLog>>

\* nbody_step, lines 292-294, and observe, lines 190-192: integrate over
\* the next interval, then the bounds of the snapshot scan
StepIntegrate ==
    /\ pc = "loop"
    /\ n < Len(a_nbody)
    /\ LET a_prev == a_nbody[n]
           a_next == a_nbody[n + 1]
           s == integrate(a_prev, a_next, ptcl, tag, conf.symp_splits)
       IN /\ ptcl' = s.ptcl
          /\ tag' = s.tag
          /\ fwdKern' = Append(fwdKern, s.log)
          /\ fwdCalls' = Append(fwdCalls, <<a_prev, a_next>>)
          /\ i' = ObserveFrom(obsvbl.a_snaps, a_prev)
          /\ j' = ObserveUpTo(obsvbl.a_snaps, a_next)
    /\ obsLog' = <<>>
    /\ pc' = "observe"
    /\ UNCHANGED <<conf, reverse, a_nbody, obsvbl, n, ptcl_all_save, obsvbl_all_save,
                   ret, res, hist, written, adjInitAt, adjCalls, adjKern, cotLog>>

\* observe, body_fun: interpolate snapshot i and advance
ObserveBody ==
    /\ pc = "observe"
    /\ i < j
    /\ LET a_prev == a_nbody[n]
           a_next == a_nbody[n + 1]
           a_snap == obsvbl.a_snaps[i + 1]
           snap_itp == interptcl(obsvbl.ptcl_prev, ptcl, a_prev, a_next, a_snap)
       IN /\ obsvbl' = [obsvbl EXCEPT !.snaps[i + 1] = snap_itp]
          /\ written' = [written EXCEPT ![i + 1] = <<a_prev, a_next>>]
    /\ obsLog' = Append(obsLog, i)
    /\ i' = i + 1
    /\ UNCHANGED <<conf, reverse, pc, a_nbody, ptcl, n, j, ptcl_all_save,
                   obsvbl_all_save, ret, res, tag, hist, fwdCalls, fwdKern,
                   adjInitAt, adjCalls, adjKern, cotLog>>

\* observe, lines 207-211: the loop ends, ptcl_prev becomes the current state
ObserveReturn ==
    /\ pc = "observe"
    /\ ~(i < j)
    /\ obsvbl' = [obsvbl EXCEPT !.ptcl_prev = ptcl]
    /\ pc' = "save"
    /\ UNCHANGED <<conf, reverse, a_nbody, ptcl, n, i, j, ptcl_all_save,
                   obsvbl_all_save, ret, res, tag, hist, written, obsLog, fwdCalls,
                   fwdKern, adjInitAt, adjCalls, adjKern, cotLog>>

\* nbody, lines 316-319: the checkpoint after a step
SaveStep ==
    /\ pc = "save"
    /\ LET a_next == a_nbody[n + 1]
       IN IF SaveHere(conf, a_next)
          THEN /\ ptcl_all_save' = DictSet(ptcl_all_save, Key(a_next), ptcl)
               /\ obsvbl_all_save' = DictSet(obsvbl_all_save, Key(a_next), obsvbl)
          ELSE UNCHANGED <<ptcl_all_save, obsvbl_all_save>>
    /\ hist' = Append(hist, [ptcl |-> ptcl, obsvbl |-> obsvbl])
    /\ n' = n + 1
    /\ pc' = "loop"
    /\ UNCHANGED <<conf, reverse, a_nbody, ptcl, obsvbl, i, j, ret, res, tag, written,
                   obsLog, fwdCalls, fwdKern, adjInitAt, adjCalls, adjKern, cotLog>>

\* nbody, lines 320-323: the schedule is exhausted
NbodyReturn ==
    /\ pc = "loop"
    /\ ~(n < Len(a_nbody))
    /\ ret' = NbodyResult(conf, ptcl, obsvbl, ptcl_all_save, obsvbl_all_save)
    /\ pc' = "returned"
    /\ UNCHANGED <<conf, reverse, a_nbody, ptcl, obsvbl, n, i, j, ptcl_all_save,
                   obsvbl_all_save, res, tag, hist, written, obsLog, fwdCalls,
                   fwdKern, adjInitAt, adjCalls, adjKern, cotLog>>

\* nbody_fwd, line 373: the residuals
NbodyFwd ==
    /\ pc = "returned"
    /\ res' = Residuals(ret, conf)
    /\ pc' = "fwd_done"
    /\ UNCHANGED <<conf, reverse, a_nbody, ptcl, obsvbl, n, i, j, ptcl_all_save,
                   obsvbl_all_save, ret, tag, hist, written, obsLog, fwdCalls,
                   fwdKern, adjInitAt, adjCalls, adjKern, cotLog>>

\* nbody_bwd, lines 376-380, and nbody_adj, lines 358-361: nbody_adj_init at
\* the schedule's last entry.  force_adj hands the residual to the gravity
\* solver, which takes a particle state: a checkpoint map fails there.
AdjInit ==
    /\ pc = "fwd_done"
    /\ IF res.kind = "state"
       THEN LET sched == Schedule(res.conf, reverse)
                a == At(sched, -1)
            IN /\ a_nbody' = sched
               /\ ptcl' = force(a * WeightDen, res.ptcl)
               /\ tag' = [at |-> a * WeightDen, stale |-> FALSE]
               /\ adjInitAt' = Append(adjInitAt, a)
               /\ cotLog' = cotLog \o observe_adj_init(a, res.obsvbl)
               /\ pc' = "adj_loop"
       ELSE /\ pc' = "adj_error"
            /\ UNCHANGED <<a_nbody, ptcl, tag, adjInitAt, cotLog>>
    /\ n' = 1
    /\ UNCHANGED <<conf, reverse, obsvbl, i, j, ptcl_all_save, obsvbl_all_save, ret,
                   res, hist, written, obsLog, fwdCalls, fwdKern, adjCalls, adjKern>>

\* nbody_adj, lines 363-366: nbody_adj_step over the next interval
AdjStep ==
    /\ pc = "adj_loop"
    /\ n <= Len(AdjPairs(a_nbody))
    /\ LET a_prev == AdjPairs(a_nbody)[n][1]
           a_next == AdjPairs(a_nbody)[n][2]
           s == integrate_adj(a_prev, a_next, ptcl, tag, res.conf.symp_splits)
       IN /\ ptcl' = s.ptcl
          /\ tag' = s.tag
          /\ adjKern' = Append(adjKern, s.log)
          /\ adjCalls' = Append(adjCalls, <<a_prev, a_next>>)
          /\ cotLog' = cotLog \o observe_adj(a_prev, a_next, res.obsvbl, n)
    /\ n' = n + 1
    /\ UNCHANGED <<conf, reverse, pc, a_nbody, obsvbl, i, j, ptcl_all_save,
                   obsvbl_all_save, ret, res, hist, written, obsLog, fwdCalls,
                   fwdKern, adjInitAt>>

\* nbody_adj, line 368
AdjReturn ==
    /\ pc = "adj_loop"
    /\ ~(n <= Len(AdjPairs(a_nbody)))
    /\ pc' = "adj_done"
    /\ UNCHANGED <<conf, reverse, a_nbody, ptcl, obsvbl, n, i, j, ptcl_all_save,
                   obsvbl_all_save, ret, res, tag, hist, written, obsLog, fwdCalls,
                   fwdKern, adjInitAt, adjCalls, adjKern, cotLog>>

Next ==
    \/ NbodyInit
    \/ StepIntegrate
    \/ ObserveBody
    \/ ObserveReturn
    \/ SaveStep
    \/ NbodyReturn
    \/ NbodyFwd
    \/ AdjInit
    \/ AdjStep
    \/ AdjReturn

Spec == Init /\ [][Next]_vars

\* ------------------------------------- integrate forward, then back
\* the particle states integrate is applied to
Ptcls == [disp : 0..MaxVal, vel : 0..MaxVal, acc : -1..1]

InitRev ==
    /\ \E a0 \in 1..MaxA, a1 \in 1..MaxA, sp \in SplitLists :
          conf = Config(<<a0, a1>>, <<a1>>, FALSE, {}, sp)
    /\ reverse = FALSE
    /\ pc = "rev_start"
    /\ ptcl \in Ptcls
    /\ written = <<>>
    /\ InitRest

\* integrate(a0, a1, ptcl, cosmo, conf)
RevForward ==
    /\ pc = "rev_start"
    /\ LET s == integrate(conf.a_nbody[1], conf.a_nbody[2], ptcl, tag, conf.symp_splits)
       IN /\ ptcl' = s.ptcl
          /\ tag' = s.tag
          /\ fwdKern' = Append(fwdKern, s.log)
    /\ hist' = <<[ptcl |-> ptcl, obsvbl |-> obsvbl]>>
    /\ pc' = "rev_mid"
    /\ UNCHANGED <<conf, reverse, a_nbody, obsvbl, n, i, j, ptcl_all_save,
                   obsvbl_all_save, ret, res, written, obsLog, fwdCalls, adjInitAt,
                   adjCalls, adjKern, cotLog>>

\* integrate(a1, a0, ptcl, cosmo, conf) on the result
RevBackward ==
    /\ pc = "rev_mid"
    /\ LET s == integrate(conf.a_nbody[2], conf.a_nbody[1], ptcl, tag, conf.symp_splits)
       IN /\ ptcl' = s.ptcl
          /\ tag' = s.tag
          /\ fwdKern' = Append(fwdKern, s.log)
    /\ pc' = "rev_done"
    /\ UNCHANGED <<conf, reverse, a_nbody, obsvbl, n, i, j, ptcl_all_save,
                   obsvbl_all_save, ret, res, hist, written, obsLog, fwdCalls,
                   adjInitAt, adjCalls, adjKern, cotLog>>

NextRev == RevForward \/ RevBackward

SpecRev == InitRev /\ [][NextRev]_vars

\* ================================================================ claims
Range(s) == {s[m] : m \in DOMAIN s}

\* nbody has returned a checkpoint map for checkpoints taken from the schedule
C1_Returned ==
    /\ pc = "returned"
    /\ conf.save_given
    /\ conf.a_save \subseteq Range(conf.a_nbody)

\* the returned maps hold one entry per checkpoint, each the state the run
\* had at that checkpoint's schedule entry
C1_OnePerCheckpoint ==
    /\ ret.kind = "dict"
    /\ DOMAIN ret.obsvbl = DOMAIN ret.ptcl
    /\ Cardinality(DOMAIN ret.ptcl) = Cardinality(conf.a_save)
    /\ \A m \in DOMAIN a_nbody :
          a_nbody[m] \in conf.a_save =>
             /\ Key(a_nbody[m]) \in DOMAIN ret.ptcl
             /\ ret.ptcl[Key(a_nbody[m])] = hist[m].ptcl
             /\ ret.obsvbl[Key(a_nbody[m])] = hist[m].obsvbl

\* no schedule entry other than a checkpoint itself lies within 1e-3 of a
\* checkpoint, and no two checkpoints format to the same key
C1_Separated ==
    /\ \A c \in conf.a_save : \A m \in DOMAIN conf.a_nbody :
          Abs(conf.a_nbody[m] - c) < Milli => conf.a_nbody[m] = c
    /\ \A c1, c2 \in conf.a_save : Key(c1) = Key(c2) => c1 = c2

\* C1: with conf.a_save a subset of the schedule, nbody returns exactly one
\* saved (particle state, observable buffer) entry per requested checkpoint,
\* each the state of a forward run stopped there, for every schedule, however
\* close its entries.
C1_Claim == C1_Returned => C1_OnePerCheckpoint

\* C1 on separated schedules: the map is exact when no entry other than the
\* checkpoint itself lies within 1e-3 of a checkpoint and no two checkpoints
\* format to the same 3-decimal key.
C1_WhenSeparated == (C1_Returned /\ C1_Separated) => C1_OnePerCheckpoint

\* a run on a separated schedule has returned a checkpoint taken after at
\* least one step
C1_SeparatedReached ==
    /\ C1_Returned
    /\ C1_Separated
    /\ \E m \in DOMAIN a_nbody : m > 1 /\ a_nbody[m] \in conf.a_save
    /\ Cardinality(DOMAIN ret.ptcl) = 1

\* the drifts and kicks a split list stands for, in execution order
RECURSIVE KernelOrder(_, _)
KernelOrder(splits, idx) ==
    IF idx > Len(splits) THEN <<>>
    ELSE (IF splits[idx][1] # 0 THEN <<<<"drift", splits[idx][1]>>>> ELSE <<>>)
         \o (IF splits[idx][2] # 0 THEN <<<<"kick", splits[idx][2]>>>> ELSE <<>>)
         \o KernelOrder(splits, idx + 1)

\* the split list reads the same forwards and backwards (leapfrog does)
TimeSymmetric(splits) == KernelOrder(splits, 1) = Rev(KernelOrder(splits, 1))

\* the state's acceleration is the force at a0 for its displacement, as
\* nbody_init and every integrate leave it
C2_AccAtStart ==
    hist[1].ptcl.acc = gravity(conf.a_nbody[1] * WeightDen, hist[1].ptcl)

C2_Restored ==
    /\ ptcl.disp = hist[1].ptcl.disp
    /\ ptcl.vel = hist[1].ptcl.vel

C3_Adjacent(sched, b) ==
    \E m \in 1..(Len(sched) - 1) : b[1] = sched[m] /\ b[2] = sched[m + 1]

C3_BracketOk(q) ==
    /\ C3_Adjacent(conf.a_nbody, obsvbl.snap_a_step[q])
    /\ obsvbl.snap_a_step[q][1] < obsvbl.a_snaps[q]
    /\ obsvbl.a_snaps[q] <= obsvbl.snap_a_step[q][2]

\* C3 as stated: after observe_init, every snapshot s with first entry <= s <=
\* last entry has a bracket (left, right) of adjacent schedule entries with
\* left < s <= right.
C3_Original ==
    pc # "start" =>
       \A q \in DOMAIN obsvbl.a_snaps :
          (conf.a_nbody[1] <= obsvbl.a_snaps[q]
             /\ obsvbl.a_snaps[q] <= conf.a_nbody[Len(conf.a_nbody)]) => C3_BracketOk(q)

\* C3 amended: the same for every snapshot s with first entry < s <= last
\* entry; no schedule entry lies below a snapshot at the first entry.
C3_Amended ==
    pc # "start" =>
       \A q \in DOMAIN obsvbl.a_snaps :
          (conf.a_nbody[1] < obsvbl.a_snaps[q]
             /\ obsvbl.a_snaps[q] <= conf.a_nbody[Len(conf.a_nbody)]) => C3_BracketOk(q)

\* observe_init has bracketed a snapshot that sits on a schedule entry and
\* one that sits strictly inside an interval
C3_Witness ==
    /\ pc = "loop"
    /\ Len(obsvbl.a_snaps) = 2
    /\ conf.a_nbody[1] < obsvbl.a_snaps[1]
    /\ obsvbl.a_snaps[2] <= conf.a_nbody[Len(conf.a_nbody)]
    /\ obsvbl.a_snaps[1] \notin Range(conf.a_nbody)
    /\ obsvbl.a_snaps[2] \in Range(conf.a_nbody)

\* ---------------------------------------------------------------- C4
\* C4: every snapshot in the covered range is written by observe during the
\* interval recorded as its bracket in snap_a_step, a snapshot equal to a
\* schedule entry included.  Stated for the snapshots above the first entry,
\* whose bracket is an interval of the schedule.
C4_Claim ==
    \A q \in DOMAIN written :
       (written[q] # <<>>
          /\ conf.a_nbody[1] < obsvbl.a_snaps[q]
          /\ obsvbl.a_snaps[q] <= conf.a_nbody[Len(conf.a_nbody)])
       => written[q] = obsvbl.snap_a_step[q]

\* ---------------------------------------------------------------- C5
\* C5: for every configuration, with or without checkpoints, the residuals
\* nbody_fwd saves are (final particle state, final observable buffer,
\* cosmology, configuration).
C5_Claim ==
    pc = "fwd_done" =>
       /\ res.kind = "state"
       /\ res.ptcl = hist[Len(hist)].ptcl
       /\ res.obsvbl = hist[Len(hist)].obsvbl
       /\ res.conf = conf

\* ---------------------------------------------------------------- C6
\* the forward intervals, last to first, each with its endpoints swapped
C6_Mirrored == [m \in 1..Len(fwdCalls) |->
                   <<fwdCalls[Len(fwdCalls) + 1 - m][2], fwdCalls[Len(fwdCalls) + 1 - m][1]>>]

\* C6: nbody_adj calls nbody_adj_init once, at the last scale factor the
\* forward run reached, then nbody_adj_step once per forward interval, in the
\* opposite order with the endpoints swapped, ending at the forward run's
\* first scale factor.
C6_Claim ==
    /\ pc \in {"adj_loop", "adj_done"} =>
          /\ adjInitAt = <<fwdCalls[Len(fwdCalls)][2]>>
          /\ Len(adjCalls) <= Len(fwdCalls)
          /\ \A m \in DOMAIN adjCalls : adjCalls[m] = C6_Mirrored[m]
    /\ pc = "adj_done" =>
          /\ adjCalls = C6_Mirrored
          /\ adjCalls[Len(adjCalls)][2] = fwdCalls[1][1]

\* an adjoint run over three intervals has finished
C6_Witness ==
    /\ pc = "adj_done"
    /\ Len(adjCalls) = 3
    /\ reverse

\* ---------------------------------------------------------------- C7
C7_BadConfig ==
    \/ ~Increasing(conf.a_nbody)
    \/ \E q \in DOMAIN conf.a_snapshots :
          \/ conf.a_snapshots[q] < conf.a_nbody[1]
          \/ conf.a_snapshots[q] > conf.a_nbody[Len(conf.a_nbody)]

\* C7: on a schedule that is not strictly monotonic, or with a snapshot
\* outside the schedule's range, nbody performs no force evaluation and no
\* integration step.
C7_Claim == C7_BadConfig => (tag = NoTag /\ fwdKern = <<>>)

\* ---------------------------------------------------------------- C8
\* the kernel and its three scale-factor arguments
C8_Args(e) == [op |-> e.op, a |-> e.a, from |-> e.from, to |-> e.to]

\* the adjoint calls matching the forward calls log[1..idx], last to first:
\* kick(a_acc, v, v') by kick_adj(a_acc, v', v), drift(a_vel, d, d') by
\* drift_adj(a_vel, d', d) then force_adj at d
RECURSIVE C8_Mirror(_, _)
C8_Mirror(log, idx) ==
    IF idx = 0 THEN <<>>
    ELSE (IF log[idx].op = "kick"
          THEN <<[op |-> "kick_adj", a |-> log[idx].a, from |-> log[idx].to,
                  to |-> log[idx].from]>>
          ELSE IF log[idx].op = "drift"
          THEN <<[op |-> "drift_adj", a |-> log[idx].a, from |-> log[idx].to,
                  to |-> log[idx].from],
                 [op |-> "force_adj", a |-> log[idx].from, from |-> log[idx].from,
                  to |-> log[idx].from]>>
          ELSE <<>>)
         \o C8_Mirror(log, idx - 1)

\* C8: the kernels integrate_adj(a_next, a_prev) runs are those of
\* integrate(a_prev, a_next) in reverse: each kick by a kick_adj with the
\* same a_acc and swapped endpoints, each drift by a drift_adj with the same
\* a_vel and swapped endpoints followed by force_adj at the drift's start.
C8_Claim ==
    \A q \in DOMAIN adjKern : \A r \in DOMAIN fwdKern :
       adjCalls[q] = <<fwdCalls[r][2], fwdCalls[r][1]>> =>
          [m \in DOMAIN adjKern[q] |-> C8_Args(adjKern[q][m])]
             = C8_Mirror(fwdKern[r], Len(fwdKern[r]))

\* integrate_adj has replayed, over two intervals, a split list of two
\* different entries with two drifts and a kick
C8_Witness ==
    /\ pc = "adj_done"
    /\ Len(adjKern) >= 2
    /\ Len(adjKern[1]) = 5
    /\ Len(conf.symp_splits) = 2
    /\ conf.symp_splits[1] # conf.symp_splits[2]

\* ---------------------------------------------------------------- C9
\* C9: whenever integrate applies kick, the acceleration comes from a force
\* evaluation made after the last displacement update, a_acc is the scale
\* factor of that evaluation, and a kick before the step's first drift has
\* a_acc = a_prev.
C9_Claim ==
    \A r \in DOMAIN fwdKern : \A e \in DOMAIN fwdKern[r] :
       fwdKern[r][e].op = "kick" =>
          /\ ~fwdKern[r][e].stale
          /\ fwdKern[r][e].accAt = fwdKern[r][e].a
          /\ (\A d \in 1..(e - 1) : fwdKern[r][d].op # "drift")
                => fwdKern[r][e].a = fwdCalls[r][1] * WeightDen

\* a trajectory of two steps whose steps begin with a kick and kick again
\* after a drift
C9_Witness ==
    /\ pc = "returned"
    /\ Len(fwdKern) >= 2
    /\ fwdKern[2][1].op = "kick"
    /\ fwdKern[2][Len(fwdKern[2])].op = "kick"
    /\ Len(fwdKern[2]) = 4

\* --------------------------------------------------------------- C10
\* the scan so far: consecutive indices, rising scale factors, no more
\* iterations than snapshots, i one past the last index written
C10_ScanOk ==
    pc \in {"observe", "save"} =>
       /\ \A q \in 1..(Len(obsLog) - 1) :
             /\ obsLog[q + 1] = obsLog[q] + 1
             /\ obsvbl.a_snaps[obsLog[q] + 1] < obsvbl.a_snaps[obsLog[q + 1] + 1]
       /\ Len(obsLog) <= Len(obsvbl.a_snaps)
       /\ obsLog # <<>> => i = obsLog[Len(obsLog)] + 1
       /\ pc = "observe" => (ENABLED ObserveBody \/ ENABLED ObserveReturn)

\* observe has returned: the snapshots written so far are exactly those
\* below a_next, and ptcl_prev is the current state
C10_ExitOk ==
    pc = "save" =>
       /\ \A q \in DOMAIN written :
             (written[q] # <<>>) <=> (obsvbl.a_snaps[q] < a_nbody[n + 1])
       /\ obsvbl.ptcl_prev = ptcl

\* every requested snapshot lies within the schedule's range
C10_Covered ==
    \A q \in DOMAIN conf.a_snapshots :
       /\ conf.a_nbody[1] <= conf.a_snapshots[q]
       /\ conf.a_snapshots[q] <= conf.a_nbody[Len(conf.a_nbody)]

\* C10 as stated: on every interval the driver passes, forward or reversed,
\* observe terminates, writes the pending snapshots in increasing order one
\* index at a time, stops exactly when no unwritten snapshot remains below
\* a_next, and sets ptcl_prev to the current state.  Stated for snapshots
\* within the schedule's range.
C10_Original == C10_Covered => (C10_ScanOk /\ C10_ExitOk)

\* C10 amended: the same on a forward traversal only (reverse = False).
C10_Amended == (~reverse /\ C10_Covered) => (C10_ScanOk /\ C10_ExitOk)

\* a forward observe call has written two snapshots and returned
C10_Witness ==
    /\ pc = "save"
    /\ ~reverse
    /\ C10_Covered
    /\ Len(obsLog) = 2
    /\ n >= 2

\* ---------------------------------------------------------------- C11
\* the positions in cotLog of the injections of snapshot q's cotangent by rule
C11_Injections(rule, q) ==
    {m \in DOMAIN cotLog : cotLog[m].rule = rule /\ cotLog[m].snap = q}

\* snapshot q's cotangent went once through itp_next_adj with the state at the
\* bracket's right endpoint, once through itp_prev_adj with the state at the
\* bracket's left endpoint, the former first and in another observer call
C11_OncePerRule(q) ==
    /\ Cardinality(C11_Injections("next", q)) = 1
    /\ Cardinality(C11_Injections("prev", q)) = 1
    /\ \A m \in C11_Injections("next", q) : \A r \in C11_Injections("prev", q) :
          /\ cotLog[m].at = res.obsvbl.snap_a_step[q][2]
          /\ cotLog[r].at = res.obsvbl.snap_a_step[q][1]
          /\ m < r
          /\ cotLog[m].call # cotLog[r].call

\* C11: over a complete nbody_adj run on a strictly monotonic schedule, each
\* snapshot's cotangent is injected exactly once through itp_next_adj, with the
\* adjoint state at the bracket's right endpoint, and exactly once through
\* itp_prev_adj, with the state at the bracket's left endpoint, the next-rule
\* injection first and never both in one observe_adj call.
C11_Claim ==
    (pc = "adj_done" /\ Increasing(conf.a_nbody)) =>
       \A q \in DOMAIN res.obsvbl.a_snaps : C11_OncePerRule(q)

\* C11 on a forward traversal, for the snapshots above the schedule's first
\* entry and not above its last
C11_ForwardInside ==
    (pc = "adj_done" /\ Increasing(conf.a_nbody) /\ ~reverse) =>
       \A q \in DOMAIN res.obsvbl.a_snaps :
          (conf.a_nbody[1] < res.obsvbl.a_snaps[q]
             /\ res.obsvbl.a_snaps[q] <= conf.a_nbody[Len(conf.a_nbody)])
          => C11_OncePerRule(q)

\* a forward adjoint run has injected, by both rules, the cotangents of a
\* snapshot bracketed by the last interval and of one bracketed by an earlier
\* interval
C11_ForwardInsideReached ==
    /\ pc = "adj_done" /\ ~reverse /\ Increasing(conf.a_nbody)
    /\ Len(res.obsvbl.a_snaps) = 2
    /\ conf.a_nbody[1] < res.obsvbl.a_snaps[1]
    /\ res.obsvbl.snap_a_step[1][2] < conf.a_nbody[Len(conf.a_nbody)]
    /\ res.obsvbl.snap_a_step[2][2] = conf.a_nbody[Len(conf.a_nbody)]
    /\ Len(cotLog) = 4

====
